---- MODULE Spec2Model ----
(***************************************************************************)
(* Visitor analytics pipeline of the profile site.                         *)
(*                                                                         *)
(* Visit Recorder: ProfessionalItCv.logVisitorInfo (src/unnamed/part_001,  *)
(* lines 782-875): the mount effect, the isLoading guard, the address      *)
(* lookup with its 5 s abort, the classification of the user agent and the *)
(* append to visitor_logs with its retry loop.                             *)
(*                                                                         *)
(* Stats Aggregator: StatsPage (src/app/stats/page.tsx, lines 184-505, and *)
(* its earlier version src/unnamed/part_002): calculateStats, fetchLogs,   *)
(* the change-notification subscription and getPercentChange.              *)
(*                                                                         *)
(* Instants are whole hours. Hour 1 is a local midnight of the aggregator: *)
(* the clock values 0..MaxTime lie around it.                              *)
(***************************************************************************)
EXTENDS Integers, Sequences, FiniteSets, TLC

VARIABLES
    strictMode,     \* the build double-invokes mount effects (reactStrictMode, development)
    userAgent,      \* window.navigator.userAgent
    page,           \* "rendered" (first render done, effects pending), "mounted", "unmounted"
    isLoading,      \* the useState value, as last set
    seenLoading,    \* isLoading as captured by the last render (closure of logVisitorInfo)
    inv,            \* the logVisitorInfo invocations that passed the guard, in call order
    visitor_logs,   \* the rows of the visitor_logs table, in insertion order
    now,            \* the client clock
    classified,     \* results of detectBrowser / detectOS applied to userAgent
    zone,           \* the daylight-saving rule of the aggregator's local time zone
    variant,        \* the version of StatsPage: "setDate" (page.tsx) or "millis" (part_002)
    view,           \* StatsPage: "rendered" (effects pending), "mounted", "unmounted"
    stats,          \* the useState aggregate of StatsPage
    statsAt,        \* the instant calculateStats read (new Date()) when it made stats; -1: never
    loading,        \* the useState loading flag of StatsPage
    reads,          \* the fetchLogs calls, in call order
    channel,        \* the realtime subscriptions made so far: state and notifications not yet delivered
    cards,          \* the percentages the last render of StatsPage shows in its overview cards
    instance,       \* the number of the StatsPage instance on screen (a view opened again is a new one)
    typewriter      \* the headline of ProfessionalItCv: its version, its text and its timers

statsVars == <<zone, variant, view, stats, statsAt, loading, reads, channel, cards, instance>>
recorderVars == <<strictMode, userAgent, page, isLoading, seenLoading, inv, classified>>
vars == <<strictMode, userAgent, page, isLoading, seenLoading, inv, visitor_logs, now, classified,
          zone, variant, view, stats, statsAt, loading, reads, channel, cards, instance, typewriter>>

-----------------------------------------------------------------------------
(* Bounds of the model *)

MaxInvocations == 2     \* invocations of logVisitorInfo that pass the guard
MaxTime == 1            \* clock ticks
MaxTokens == 3          \* fragments a user-agent string is made of
MaxRows == 2            \* rows of the tables enumerated in full, and rows inserted while the view runs
MaxExtra == 1           \* rows beyond the cap of recentVisits in the long tables
MaxReads == 2           \* fetchLogs calls of one view

(* Program constants *)

OneMoreRetry == 3 + 1    \* a bound of 4 attempts

MaxRetries == 3         \* let retries = 3

WeekDays == 7           \* weekAgo.getDate() - 7, 7 * 24 * 60 * 60 * 1000
DayHours == 24          \* 7 * 24 * 60 * 60 * 1000
RecentCap == 50         \* logs.slice(0, 50)

-----------------------------------------------------------------------------
(* User-agent strings *)

UATokens ==
    { "Mozilla/5.0 ", "Windows NT 10.0", "Macintosh", "X11; Linux x86_64",
      "Linux; Android 13", "Android", "iOS", "iPhone OS 16_6",
      "Firefox/119.0", "Chrome/119.0", "Safari/537.36", "Edge/18.19582",
      "Edg/119.0", "Opera/9.80", "firefox" }

RECURSIVE Concat(_)
Concat(ts) == IF ts = <<>> THEN "" ELSE Head(ts) \o Concat(Tail(ts))

UAStrings == { Concat(ts) : ts \in UNION { [1..n -> UATokens] : n \in 0..MaxTokens } }

\* the user agent of the recording page
UASamples ==
    { "Mozilla/5.0 (X11; Linux x86_64) AppleWebKit/537.36 (KHTML, like Gecko) Chrome/119.0.0.0 Safari/537.36" }

\* String.prototype.includes: sub occurs in s as a contiguous substring
Includes(s, sub) ==
    \E k \in 0..(Len(s) - Len(sub)) : SubSeq(s, k + 1, k + Len(sub)) = sub

\* Chrome tested before Firefox
detectBrowserChromeFirst(ua) ==
    IF Includes(ua, "Chrome") THEN "Chrome"
    ELSE IF Includes(ua, "Firefox") THEN "Firefox"
    ELSE IF Includes(ua, "Safari") THEN "Safari"
    ELSE IF Includes(ua, "Edge") THEN "Edge"
    ELSE IF Includes(ua, "Opera") THEN "Opera"
    ELSE "Unknown"

\* Edge tested before Chrome and Safari
detectBrowserEdgeFirst(ua) ==
    IF Includes(ua, "Firefox") THEN "Firefox"
    ELSE IF Includes(ua, "Edge") THEN "Edge"
    ELSE IF Includes(ua, "Chrome") THEN "Chrome"
    ELSE IF Includes(ua, "Safari") THEN "Safari"
    ELSE IF Includes(ua, "Opera") THEN "Opera"
    ELSE "Unknown"

detectBrowser(ua) ==
    IF Includes(ua, "Firefox") THEN "Firefox"
    ELSE IF Includes(ua, "Chrome") THEN "Chrome"
    ELSE IF Includes(ua, "Safari") THEN "Safari"
    ELSE IF Includes(ua, "Edge") THEN "Edge"
    ELSE IF Includes(ua, "Opera") THEN "Opera"
    ELSE "Unknown"

\* Android tested before Linux
detectOSAndroidFirst(ua) ==
    IF Includes(ua, "Windows") THEN "Windows"
    ELSE IF Includes(ua, "Mac") THEN "macOS"
    ELSE IF Includes(ua, "Android") THEN "Android"
    ELSE IF Includes(ua, "Linux") THEN "Linux"
    ELSE IF Includes(ua, "iOS") THEN "iOS"
    ELSE "Unknown"

\* no final return: a string without any of the markers gives undefined
detectOSNoFallback(ua) ==
    IF Includes(ua, "Windows") THEN "Windows"
    ELSE IF Includes(ua, "Mac") THEN "macOS"
    ELSE IF Includes(ua, "Linux") THEN "Linux"
    ELSE IF Includes(ua, "Android") THEN "Android"
    ELSE IF Includes(ua, "iOS") THEN "iOS"
    ELSE "undefined"

detectOS(ua) ==
    IF Includes(ua, "Windows") THEN "Windows"
    ELSE IF Includes(ua, "Mac") THEN "macOS"
    ELSE IF Includes(ua, "Linux") THEN "Linux"
    ELSE IF Includes(ua, "Android") THEN "Android"
    ELSE IF Includes(ua, "iOS") THEN "iOS"
    ELSE "Unknown"

-----------------------------------------------------------------------------
(* Visit Recorder *)

IPs == { "203.0.113.7" }

NoLog == [ip |-> "", timestamp |-> -1, os |-> "", browser |-> ""]

\* the lookup is not awaited: the insert is issued at once
NewInvocationNoAwait ==
    [pc |-> "insert", lookup |-> "pending", retries |-> 3, attempts |-> 1,
     persisted |-> 0, rejected |-> FALSE, visitorLog |-> NoLog]

\* an invocation right after the guard: setIsLoading(true), fetch issued
NewInvocation ==
    [pc |-> "fetch", lookup |-> "pending", retries |-> 0, attempts |-> 0,
     persisted |-> 0, rejected |-> FALSE, visitorLog |-> NoLog]

\* setIsLoading: the value the state holds once the update is applied
setIsLoading(v) == v

\* a catch that handles the abort only and rethrows the rest
OuterCatchAbortOnly(e) == e = "AbortError"

\* catch (error: unknown) of logVisitorInfo: every exception of the try block
OuterCatch(e) == TRUE

\* catch (error) inside the retry loop: every exception of the insert
InnerCatch(e) == TRUE

\* the exception a settled fetch makes the try block throw ("none": no exception)
Thrown(r) ==
    CASE r = "ok" -> "none"
      [] r = "notOk" -> "Error"          \* throw new Error('Failed to fetch IP')
      [] OTHER -> r                      \* the rejection of fetch itself

\* the synchronous head of logVisitorInfo, called with the isLoading its closure holds
logVisitorInfo(st, closureLoading) ==
    IF closureLoading
    THEN st
    ELSE [inv |-> Append(st.inv, NewInvocation), isLoading |-> setIsLoading(TRUE)]

\* the invocation leaves the try block (normally or by exception e): catch, finally
Settle(v, e) ==
    [v EXCEPT !.pc = "done", !.rejected = (e # "none" /\ ~OuterCatch(e))]

\* setIsLoading(false) at the end of the try block instead of in finally
LoadingAfterSuccessOnly(v, cur) ==
    IF v.pc = "done" /\ v.persisted > 0 THEN setIsLoading(FALSE) ELSE cur

\* finally { setIsLoading(false) }: isLoading after a step that left invocation v
\* as given, cur being its value before the step
LoadingAfter(v, cur) == IF v.pc = "done" THEN setIsLoading(FALSE) ELSE cur

\* while (retries >= 0)
LoopOrLeaveInclusive(v) ==
    IF v.retries >= 0
    THEN [v EXCEPT !.pc = "insert", !.attempts = @ + 1]
    ELSE Settle(v, "none")

\* one pass of while (retries > 0): issue the insert, or leave the loop
LoopOrLeave(v) ==
    IF v.retries > 0
    THEN [v EXCEPT !.pc = "insert", !.attempts = @ + 1]
    ELSE Settle(v, "none")

\* no break after a stored row: back to the loop condition
AfterStoredNoBreak(v) == LoopOrLeave([v EXCEPT !.persisted = @ + 1])

\* the insert reported no error: the row is stored, break leaves the loop
AfterStored(v) == Settle([v EXCEPT !.persisted = @ + 1], "none")

\* the insert failed with e: retries--, then the 1 s pause
AfterFailed(v, e) ==
    IF InnerCatch(e)
    THEN [v EXCEPT !.retries = @ - 1, !.pc = "delay"]
    ELSE Settle(v, e)

\* a row replaces the stored row of the same address (an upsert keyed by ip)
insertOrReplace(table, row) ==
    IF \E k \in 1..Len(table) : table[k].ip = row.ip
    THEN [k \in 1..Len(table) |-> IF table[k].ip = row.ip THEN row ELSE table[k]]
    ELSE Append(table, row)

\* supabase.from('visitor_logs').insert([row]), accepted: the table afterwards
insert(table, row) == Append(table, row)

\* attempts of invocation v that have failed so far
Failures(v) == IF v.lookup = "ok" THEN MaxRetries - v.retries ELSE 0

-----------------------------------------------------------------------------
(* Stats Aggregator: local time *)

Zones == {"fixed", "springForward", "fallBack"}
Variants == {"setDate", "millis"}

\* local days are numbered so that day 0 starts at hour 1; the zones with
\* daylight saving change their offset during day -3
Days == (0 - 10)..2

DayLength(z, d) ==
    IF d = 0 - 3 /\ z = "springForward" THEN DayHours - 1
    ELSE IF d = 0 - 3 /\ z = "fallBack" THEN DayHours + 1
    ELSE DayHours

\* new Date(year, month, date): the instant local day d starts at
RECURSIVE DayStart(_, _)
DayStart(z, d) ==
    IF d = 0 THEN 1
    ELSE IF d > 0 THEN DayStart(z, d - 1) + DayLength(z, d - 1)
    ELSE DayStart(z, d + 1) - DayLength(z, d)

\* getFullYear / getMonth / getDate: the local day instant t lies in
DayOf(z, t) == CHOOSE d \in Days : DayStart(z, d) <= t /\ t < DayStart(z, d + 1)

-----------------------------------------------------------------------------
(* Stats Aggregator: the bulk read and calculateStats *)

EmptyMap == [k \in {} |-> 0]

\* log[name], a missing property read as the key "undefined"
Field(log, name) == IF name \in DOMAIN log THEN log[name] ELSE "undefined"

\* select('*'): the rows with the id the table gave them
Rows(table) == [k \in 1..Len(table) |-> table[k] @@ [id |-> k]]

\* the rows numbered in left whose timestamp has r - 1 different timestamps
\* of left before it in the order asked for
Ranked(rows, left, descending, r) ==
    { k \in left :
        Cardinality({ rows[m].timestamp :
                        m \in { m \in left : IF descending
                                              THEN rows[m].timestamp > rows[k].timestamp
                                              ELSE rows[m].timestamp < rows[k].timestamp } }) = r - 1 }

\* rows of equal timestamp come in any order
AnyOrder(rows, group) ==
    LET n == Cardinality(group)
    IN { [i \in 1..n |-> rows[p[i]]] :
           p \in { f \in [1..n -> group] : \A i, j \in 1..n : f[i] = f[j] => i = j } }

\* every order by timestamp of the rows numbered in left whose timestamp is
\* the lo-th to hi-th of the different timestamps of left
RECURSIVE Sorted(_, _, _, _, _)
Sorted(rows, left, descending, lo, hi) ==
    IF lo > hi THEN {<<>>}
    ELSE IF lo = hi THEN AnyOrder(rows, Ranked(rows, left, descending, lo))
    ELSE LET mid == (lo + hi) \div 2
         IN { a \o b : a \in Sorted(rows, left, descending, lo, mid),
                       b \in Sorted(rows, left, descending, mid + 1, hi) }

\* order('timestamp', { ascending: true })
OrdersAscending(rows, left) ==
    Sorted(rows, left, FALSE, 1, Cardinality({ rows[m].timestamp : m \in left }))

\* order('timestamp', { ascending: false }): every order of the rows numbered
\* in left that is descending by timestamp (rows of equal timestamp in any order)
Orders(rows, left) ==
    Sorted(rows, left, TRUE, 1, Cardinality({ rows[m].timestamp : m \in left }))

\* select('*') without order(...): the rows in any order
selectUnordered(table) ==
    LET rows == Rows(table)
    IN { [k \in 1..Len(table) |-> rows[p[k]]] : p \in Permutations(1..Len(table)) }

\* the results the bulk read of a table can give
select(table) == Orders(Rows(table), 1..Len(table))

\* map[key] = 1
IncrOverwrite(map, key) ==
    IF key \in DOMAIN map THEN [map EXCEPT ![key] = 1] ELSE map @@ (key :> 1)

\* map[key] = (map[key] || 0) + 1
Incr(map, key) ==
    IF key \in DOMAIN map THEN [map EXCEPT ![key] = @ + 1] ELSE map @@ (key :> 1)

\* the counter object acc after logs.forEach has visited logs[lo..hi] in
\* order: the object as it is after logs[lo..mid] is what the visits of
\* logs[mid+1..hi] go on from (bound as a value, half, before they start)
RECURSIVE CountOver(_, _, _, _, _)
CountOver(acc, logs, name, lo, hi) ==
    IF lo > hi THEN acc
    ELSE IF lo = hi THEN Incr(acc, Field(logs[lo], name))
    ELSE LET mid == (lo + hi) \div 2
         IN CHOOSE all \in { CountOver(half, logs, name, mid + 1, hi) :
                                half \in { CountOver(acc, logs, name, lo, mid) } } : TRUE

\* the counter object after logs.forEach has visited the first n logs
CountBy(logs, name, n) == CountOver(EmptyMap, logs, name, 1, n)

\* logDate > bound
ReachesStrictly(t, bound) == t > bound

\* logDate >= bound
Reaches(t, bound) == t >= bound

\* what logs.forEach adds to todayCount / weekCount while it visits logs[lo..hi]
RECURSIVE CountedIn(_, _, _, _)
CountedIn(logs, bound, lo, hi) ==
    IF lo > hi THEN 0
    ELSE IF lo = hi THEN (IF Reaches(logs[lo].timestamp, bound) THEN 1 ELSE 0)
    ELSE LET mid == (lo + hi) \div 2
         IN CountedIn(logs, bound, lo, mid) + CountedIn(logs, bound, mid + 1, hi)

\* todayCount / weekCount after logs.forEach has visited the first n logs
CountFrom(logs, bound, n) == CountedIn(logs, bound, 1, n)

\* logs.slice(from, to)
Slice(logs, from, to) == SubSeq(logs, from + 1, IF to < Len(logs) THEN to ELSE Len(logs))

\* the midnight that ends the day: new Date(y, m, d + 1)
TodayEnd(z, clock) == DayStart(z, DayOf(z, clock) + 1)

\* today of calculateStats
Today(z, clock) == DayStart(z, DayOf(z, clock))

\* both versions by milliseconds: today.getTime() - 7 * 24 * 60 * 60 * 1000
WeekAgoMillis(z, v, clock) == Today(z, clock) - WeekDays * DayHours

\* the window opened seven days after today's midnight instead of before it
WeekAhead(z, v, clock) == Today(z, clock) + WeekDays * DayHours

\* weekAgo (page.tsx: setDate(getDate() - 7)) or lastWeek (part_002: getTime() - 7 days)
WeekAgo(z, v, clock) ==
    IF v = "setDate"
    THEN DayStart(z, DayOf(z, clock) - WeekDays)
    ELSE Today(z, clock) - WeekDays * DayHours

calculateStats(logs, clock, z, v) ==
    LET core == [totalVisits |-> Len(logs),
                 browsers |-> CountBy(logs, "browser", Len(logs)),
                 operatingSystems |-> CountBy(logs, "os", Len(logs)),
                 recentVisits |-> Slice(logs, 0, RecentCap),
                 todayVisits |-> CountFrom(logs, Today(z, clock), Len(logs)),
                 lastWeekVisits |-> CountFrom(logs, WeekAgo(z, v, clock), Len(logs))]
    IN IF v = "setDate"
       THEN core @@ [deviceTypes |-> CountBy(logs, "device_type", Len(logs)),
                     timeZones |-> CountBy(logs, "time_zone", Len(logs))]
       ELSE core

\* the initial useState aggregate
EmptyStats(v) ==
    LET core == [totalVisits |-> 0, browsers |-> EmptyMap, operatingSystems |-> EmptyMap,
                 recentVisits |-> <<>>, todayVisits |-> 0, lastWeekVisits |-> 0]
    IN IF v = "setDate"
       THEN core @@ [deviceTypes |-> EmptyMap, timeZones |-> EmptyMap]
       ELSE core

\* the text of (x).toFixed(1) for the quotient x = num / den, den > 0
toFixed1(num, den) ==
    LET tenths == (2 * 10 * num + den) \div (2 * den)
    IN ToString(tenths \div 10) \o "." \o ToString(tenths % 10)

\* a JavaScript number and a JavaScript string, each with the text JSX shows for it
Number(text) == [type |-> "number", text |-> text]

String(text) == [type |-> "string", text |-> text]

\* no test of total: (0 / 0 * 100).toFixed(1) is "NaN", (x / 0 * 100).toFixed(1) is "Infinity"
getPercentChangeUnguarded(current, total) ==
    IF total = 0 THEN (IF current = 0 THEN String("NaN") ELSE String("Infinity"))
    ELSE String(toFixed1(current * 100, total))

getPercentChange(current, total) ==
    IF total = 0 THEN Number("0") ELSE String(toFixed1(current * 100, total))

\* what the render puts under Today's Visits and Last 7 Days; the loading
\* line has neither
NoCards == [today |-> String(""), week |-> String("")]

RenderCards(isLoadingView, st) ==
    IF isLoadingView THEN NoCards
    ELSE [today |-> getPercentChange(st.todayVisits, st.totalVisits),
          week |-> getPercentChange(st.lastWeekVisits, st.totalVisits)]

\* the headline before the mount effect: useState(''), no timer set, no
\* cleanup to run; the version with setInterval
TypewriterIdle == [version |-> "interval", text |-> "", timers |-> <<>>, cleanup |-> 0]

\* the state of StatsPage and of its channel before the effect has run
StatsViewIdle ==
    /\ view = "rendered"
    /\ stats = EmptyStats(variant)
    /\ statsAt = 0 - 1
    /\ loading = TRUE
    /\ reads = <<>>
    /\ channel = <<>>
    /\ cards = RenderCards(loading, stats)
    /\ instance = 1

\* neither the stats view nor the headline has run an effect
StatsIdle ==
    /\ StatsViewIdle
    /\ typewriter = TypewriterIdle

\* the recording page before its mount effect; the stats view of the current version, not opened
Init ==
    /\ zone = "fixed"
    /\ variant = "setDate"
    /\ StatsIdle
    /\ strictMode \in BOOLEAN
    /\ userAgent \in UASamples
    /\ page = "rendered"
    /\ isLoading = FALSE
    /\ seenLoading = FALSE
    /\ inv = <<>>
    /\ visitor_logs = <<>>
    /\ now = 0
    /\ classified = [browser |-> "", os |-> ""]

\* useEffect(() => { logVisitorInfo() }, [logVisitorInfo]) on mount
MountEffect ==
    /\ page = "rendered"
    /\ LET st0 == [inv |-> inv, isLoading |-> isLoading]
           st1 == logVisitorInfo(st0, seenLoading)
           st2 == IF strictMode THEN logVisitorInfo(st1, seenLoading) ELSE st1
       IN /\ Len(st2.inv) <= MaxInvocations
          /\ inv' = st2.inv
          /\ isLoading' = st2.isLoading
    /\ page' = "mounted"
    /\ UNCHANGED <<strictMode, userAgent, seenLoading, visitor_logs, now, classified>>
    /\ UNCHANGED statsVars
    /\ UNCHANGED typewriter

\* a re-render; the effect runs again when its dependency logVisitorInfo changed,
\* which useCallback(..., [isLoading]) makes happen when isLoading changed
Render ==
    /\ page = "mounted"
    /\ seenLoading' = isLoading
    /\ IF isLoading # seenLoading
       THEN LET st == logVisitorInfo([inv |-> inv, isLoading |-> isLoading], isLoading)
            IN /\ Len(st.inv) <= MaxInvocations
               /\ inv' = st.inv
               /\ isLoading' = st.isLoading
       ELSE UNCHANGED <<inv, isLoading>>
    /\ UNCHANGED <<strictMode, userAgent, page, visitor_logs, now, classified>>
    /\ UNCHANGED statsVars
    /\ UNCHANGED typewriter

\* a cleanup that ends what logVisitorInfo has under way
UnmountCancelling ==
    /\ page = "mounted"
    /\ page' = "unmounted"
    /\ inv' = [i \in 1..Len(inv) |-> [inv[i] EXCEPT !.pc = "done"]]
    /\ UNCHANGED <<strictMode, userAgent, isLoading, seenLoading, visitor_logs, now, classified>>
    /\ UNCHANGED statsVars
    /\ UNCHANGED typewriter

Unmount ==
    /\ page = "mounted"
    /\ page' = "unmounted"
    /\ UNCHANGED <<strictMode, userAgent, isLoading, seenLoading, inv, visitor_logs, now, classified>>
    /\ UNCHANGED statsVars
    /\ UNCHANGED typewriter

Tick ==
    /\ now < MaxTime
    /\ now' = now + 1
    /\ UNCHANGED <<strictMode, userAgent, page, isLoading, seenLoading, inv, visitor_logs, classified>>
    /\ UNCHANGED statsVars
    /\ UNCHANGED typewriter

\* await fetch(...) settles: a response, or an exception (abort after 5 s, network)
FetchResolve(i) ==
    /\ i \in 1..Len(inv)
    /\ inv[i].pc = "fetch"
    /\ \E r \in {"ok", "notOk", "AbortError", "TypeError"} :
        inv' = [inv EXCEPT ![i] =
                  IF Thrown(r) = "none"
                  THEN [@ EXCEPT !.pc = "json"]
                  ELSE Settle([@ EXCEPT !.lookup = r], Thrown(r))]
    /\ isLoading' = LoadingAfter(inv'[i], isLoading)
    /\ UNCHANGED <<strictMode, userAgent, page, seenLoading, visitor_logs, now, classified>>
    /\ UNCHANGED statsVars
    /\ UNCHANGED typewriter

\* await ipResponse.json() settles; on success the record is built and the loop entered
JsonResolve(i) ==
    /\ i \in 1..Len(inv)
    /\ inv[i].pc = "json"
    /\ \/ \E ip \in IPs :
            LET visitorLog == [ip |-> ip, timestamp |-> now,
                               os |-> detectOS(userAgent),
                               browser |-> detectBrowser(userAgent)]
            IN inv' = [inv EXCEPT ![i] =
                         LoopOrLeave([@ EXCEPT !.lookup = "ok",
                                               !.visitorLog = visitorLog,
                                               !.retries = MaxRetries])]
       \/ inv' = [inv EXCEPT ![i] = Settle([@ EXCEPT !.lookup = "badJson"], "SyntaxError")]
    /\ isLoading' = LoadingAfter(inv'[i], isLoading)
    /\ UNCHANGED <<strictMode, userAgent, page, seenLoading, visitor_logs, now, classified>>
    /\ UNCHANGED statsVars
    /\ UNCHANGED typewriter

\* await supabase.from('visitor_logs').insert([visitorLog]).select() settles:
\* the row is stored and no error reported, or an error is reported or thrown
InsertResolve(i) ==
    /\ i \in 1..Len(inv)
    /\ inv[i].pc = "insert"
    /\ \/ /\ visitor_logs' = insert(visitor_logs, inv[i].visitorLog)
          /\ inv' = [inv EXCEPT ![i] = AfterStored(@)]
       \/ /\ \E e \in {"PostgrestError", "TypeError"} :
                inv' = [inv EXCEPT ![i] = AfterFailed(@, e)]
          /\ UNCHANGED visitor_logs
    /\ isLoading' = LoadingAfter(inv'[i], isLoading)
    /\ UNCHANGED <<strictMode, userAgent, page, seenLoading, now, classified>>
    /\ UNCHANGED statsVars
    /\ UNCHANGED typewriter

\* the 1 s pause in the catch block is over: back to the loop condition
\* the record is built again for the retry: a new timestamp
DelayElapsedRestamp(i) ==
    /\ i \in 1..Len(inv)
    /\ inv[i].pc = "delay"
    /\ inv' = [inv EXCEPT ![i] = LoopOrLeave([@ EXCEPT !.visitorLog.timestamp = now])]
    /\ isLoading' = LoadingAfter(inv'[i], isLoading)
    /\ UNCHANGED <<strictMode, userAgent, page, seenLoading, visitor_logs, now, classified>>
    /\ UNCHANGED statsVars
    /\ UNCHANGED typewriter

DelayElapsed(i) ==
    /\ i \in 1..Len(inv)
    /\ inv[i].pc = "delay"
    /\ inv' = [inv EXCEPT ![i] = LoopOrLeave(@)]
    /\ isLoading' = LoadingAfter(inv'[i], isLoading)
    /\ UNCHANGED <<strictMode, userAgent, page, seenLoading, visitor_logs, now, classified>>
    /\ UNCHANGED statsVars
    /\ UNCHANGED typewriter

Next ==
    \/ MountEffect
    \/ Render
    \/ Unmount
    \/ Tick
    \/ \E i \in 1..MaxInvocations : FetchResolve(i)
    \/ \E i \in 1..MaxInvocations : JsonResolve(i)
    \/ \E i \in 1..MaxInvocations : InsertResolve(i)
    \/ \E i \in 1..MaxInvocations : DelayElapsed(i)

Spec == Init /\ [][Next]_vars

\* every pending network operation and timer of an invocation eventually settles
FairSpec ==
    Spec /\ \A i \in 1..MaxInvocations :
                WF_vars(FetchResolve(i) \/ JsonResolve(i) \/ InsertResolve(i) \/ DelayElapsed(i))

-----------------------------------------------------------------------------
(* Classification alone, over the user-agent strings made of at most MaxTokens fragments *)

ClassifyInit ==
    /\ zone = "fixed"
    /\ variant = "setDate"
    /\ StatsIdle
    /\ strictMode = FALSE
    /\ userAgent \in UAStrings
    /\ page = "rendered"
    /\ isLoading = FALSE
    /\ seenLoading = FALSE
    /\ inv = <<>>
    /\ visitor_logs = <<>>
    /\ now = 0
    /\ classified = [browser |-> "", os |-> ""]

ClassifyBrowser ==
    /\ classified.browser = ""
    /\ classified' = [classified EXCEPT !.browser = detectBrowser(userAgent)]
    /\ UNCHANGED <<strictMode, userAgent, page, isLoading, seenLoading, inv, visitor_logs, now>>
    /\ UNCHANGED statsVars
    /\ UNCHANGED typewriter

ClassifyOS ==
    /\ classified.os = ""
    /\ classified' = [classified EXCEPT !.os = detectOS(userAgent)]
    /\ UNCHANGED <<strictMode, userAgent, page, isLoading, seenLoading, inv, visitor_logs, now>>
    /\ UNCHANGED statsVars
    /\ UNCHANGED typewriter

ClassifyNext == ClassifyBrowser \/ ClassifyOS

ClassifySpec == ClassifyInit /\ [][ClassifyNext]_vars

-----------------------------------------------------------------------------
(* The recorder under any kind of user agent *)

\* the empty string and strings of one fragment each
RecordUAs == { "" } \cup UATokens

RecordInit ==
    /\ zone = "fixed"
    /\ variant = "setDate"
    /\ StatsIdle
    /\ strictMode = FALSE
    /\ userAgent \in RecordUAs
    /\ page = "rendered"
    /\ isLoading = FALSE
    /\ seenLoading = FALSE
    /\ inv = <<>>
    /\ visitor_logs = <<>>
    /\ now = 0
    /\ classified = [browser |-> "", os |-> ""]

RecordSpec == RecordInit /\ [][Next]_vars

-----------------------------------------------------------------------------
(* Stats Aggregator: StatsPage *)

\* the user agents of the page loads that write to visitor_logs
VisitorUAs ==
    { "Mozilla/5.0 (X11; Linux x86_64) AppleWebKit/537.36 (KHTML, like Gecko) Chrome/119.0.0.0 Safari/537.36",
      "Mozilla/5.0 (Windows NT 10.0; Win64; x64; rv:109.0) Gecko/20100101 Firefox/119.0" }

\* the record a page load with user agent ua builds at instant t
VisitRecord(ua, t) ==
    [ip |-> CHOOSE ip \in IPs : TRUE, timestamp |-> t,
     os |-> detectOS(ua), browser |-> detectBrowser(ua)]

\* a fetchLogs call whose select is on its way, called by the mount effect
\* or for a notification of the kind cause, in the view instance inst;
\* seen: the number of rows of its answer
NewRead(cause) ==
    [st |-> "sent", outcome |-> "none", data |-> <<>>, seen |-> 0,
     cause |-> cause, inst |-> instance]

\* the synchronous head of fetchLogs: the select is issued
fetchLogs(rs, cause) == Append(rs, NewRead(cause))

\* the kinds of change postgres_changes reports
Events == {"INSERT", "UPDATE", "DELETE"}

\* { event: '*', schema: 'public', table: 'visitor_logs' }
EventFilter == "*"

Matches(filter, kind) == filter = "*" \/ filter = kind

\* (payload) => { if (payload.eventType === 'INSERT') fetchLogs() }
OnChangeOfInserts(payload, rs) == IF payload = "INSERT" THEN fetchLogs(rs, payload) ELSE rs

\* () => fetchLogs(): the callback of the subscription
OnChange(payload, rs) == fetchLogs(rs, payload)

\* supabase.channel(...).on(...).subscribe(): one more subscription, not yet joined
Subscribe(ch) == Append(ch, [state |-> "joining", pending |-> <<>>])

\* a cleanup that leaves the subscription open
UnsubscribeNothing(ch, s) == ch

\* subscription.unsubscribe(): subscription s is closed, what it had pending is dropped
Unsubscribe(ch, s) == [ch EXCEPT ![s] = [state |-> "closed", pending |-> <<>>]]

\* the server tells every joined subscription whose filter matches about a change
Publish(ch, kind) ==
    [s \in 1..Len(ch) |->
        IF ch[s].state = "joined" /\ Matches(EventFilter, kind)
        THEN [ch[s] EXCEPT !.pending = Append(@, kind)]
        ELSE ch[s]]

\* the reads made and the notifications pending leave room for one more read
QueuesOpen == \A s \in 1..Len(channel) : Len(reads) + Len(channel[s].pending) < MaxReads

\* the number of times the mount runs the effect: twice under StrictMode
\* (effect, cleanup, effect)
EffectRuns == IF strictMode THEN 2 ELSE 1

\* setLoading(false) after setStats only, not in a finally block
setLoadingOnSuccess(outcome, cur) == IF outcome = "data" THEN FALSE ELSE cur

\* finally { setLoading(false) }
setLoadingFinally(outcome, cur) == FALSE

\* if (error) { console.error(...) } without the return: setStats(calculateStats(data || []))
OnReadErrorNoReturn(cur, clock) == calculateStats(<<>>, clock, zone, variant)

\* if (error) { console.error(...); return }, and the catch block: stats as it was
OnReadError(cur, clock) == cur

\* the recording page before its mount effect
RecorderIdle ==
    /\ strictMode = FALSE
    /\ userAgent \in UASamples
    /\ page = "rendered"
    /\ isLoading = FALSE
    /\ seenLoading = FALSE
    /\ inv = <<>>
    /\ classified = [browser |-> "", os |-> ""]

\* useEffect(() => { fetchLogs(); subscribe; return unsubscribe }, []) on mount
StatsMount ==
    /\ view = "rendered"
    /\ Len(reads) + EffectRuns <= MaxReads
    /\ view' = "mounted"
    /\ reads' = IF strictMode
                THEN fetchLogs(fetchLogs(reads, "mount"), "mount")
                ELSE fetchLogs(reads, "mount")
    /\ channel' = LET once == Subscribe(channel)
                  IN IF strictMode THEN Subscribe(Unsubscribe(once, Len(once))) ELSE once
    /\ UNCHANGED <<cards, instance, zone, variant, stats, statsAt, loading, visitor_logs, now>>
    /\ UNCHANGED recorderVars
    /\ UNCHANGED typewriter

\* the realtime server has joined subscription s: changes are notified from now on
SubscribeAck(s) ==
    /\ s \in 1..Len(channel)
    /\ channel[s].state = "joining"
    /\ channel' = [channel EXCEPT ![s].state = "joined"]
    /\ UNCHANGED <<cards, instance, zone, variant, view, stats, statsAt, loading, reads, visitor_logs, now>>
    /\ UNCHANGED recorderVars
    /\ UNCHANGED typewriter

\* the insert of some page load is accepted by the table; the joined subscriptions are notified
VisitInsert ==
    /\ Len(visitor_logs) < MaxRows
    /\ QueuesOpen
    /\ visitor_logs' = insert(visitor_logs, VisitRecord(userAgent, now))
    /\ channel' = Publish(channel, "INSERT")
    /\ UNCHANGED <<cards, instance, zone, variant, view, stats, statsAt, loading, reads, now>>
    /\ UNCHANGED recorderVars
    /\ UNCHANGED typewriter

\* the first pending postgres_changes notification of subscription s is
\* delivered to its callback
Notify(s) ==
    /\ s \in 1..Len(channel)
    /\ channel[s].state = "joined"
    /\ channel[s].pending /= <<>>
    /\ Len(reads) < MaxReads
    /\ channel' = [channel EXCEPT ![s].pending = Tail(@)]
    /\ reads' = OnChange(Head(channel[s].pending), reads)
    /\ UNCHANGED <<cards, instance, zone, variant, view, stats, statsAt, loading, visitor_logs, now>>
    /\ UNCHANGED recorderVars
    /\ UNCHANGED typewriter

\* the store answers the select of read k: the rows in descending order of
\* timestamp, an error result, or no answer at all (the await throws)
ReadServe(k) ==
    /\ k \in 1..Len(reads)
    /\ reads[k].st = "sent"
    /\ \/ \E rows \in select(visitor_logs) :
            reads' = [reads EXCEPT ![k] = [@ EXCEPT !.st = "served", !.outcome = "data",
                                                    !.data = rows, !.seen = Len(rows)]]
       \/ \E o \in {"error", "thrown"} :
            reads' = [reads EXCEPT ![k] = [@ EXCEPT !.st = "served", !.outcome = o]]
    /\ UNCHANGED <<cards, instance, zone, variant, view, stats, statsAt, loading, channel, visitor_logs, now>>
    /\ UNCHANGED recorderVars
    /\ UNCHANGED typewriter

\* await select settles in fetchLogs: setStats(calculateStats(data)) or the
\* error paths, then finally setLoading(false); the setters of an instance
\* that is gone change nothing of the instance on screen
ReadResolve(k) ==
    /\ k \in 1..Len(reads)
    /\ reads[k].st = "served"
    /\ reads' = [reads EXCEPT ![k] = [@ EXCEPT !.st = "done", !.data = <<>>]]
    /\ IF reads[k].inst /= instance
       THEN UNCHANGED <<stats, statsAt, loading, cards>>
       ELSE /\ IF reads[k].outcome = "data"
               THEN /\ stats' = calculateStats(reads[k].data, now, zone, variant)
                    /\ statsAt' = now
               ELSE /\ stats' = OnReadError(stats, now)
                    /\ UNCHANGED statsAt
            /\ loading' = setLoadingFinally(reads[k].outcome, loading)
            /\ cards' = RenderCards(loading', stats')
    /\ UNCHANGED <<instance, zone, variant, view, channel, visitor_logs, now>>
    /\ UNCHANGED recorderVars
    /\ UNCHANGED typewriter

\* the cleanup of the effect: subscription.unsubscribe() of the subscription
\* its run of the effect made
StatsUnmount ==
    /\ view = "mounted"
    /\ view' = "unmounted"
    /\ channel' = Unsubscribe(channel, Len(channel))
    /\ UNCHANGED <<cards, instance, zone, variant, stats, statsAt, loading, reads, visitor_logs, now>>
    /\ UNCHANGED recorderVars
    /\ UNCHANGED typewriter

\* the stats view opened on an empty table, other page loads writing to it
StatsInit ==
    /\ zone = "fixed"
    /\ variant = "setDate"
    /\ StatsIdle
    /\ RecorderIdle
    /\ visitor_logs = <<>>
    /\ now = 0

StatsNext ==
    \/ StatsMount
    \/ \E s \in 1..MaxReads : SubscribeAck(s)
    \/ VisitInsert
    \/ \E s \in 1..MaxReads : Notify(s)
    \/ \E k \in 1..MaxReads : ReadServe(k)
    \/ \E k \in 1..MaxReads : ReadResolve(k)
    \/ StatsUnmount
    \/ Tick

StatsSpec == StatsInit /\ [][StatsNext]_vars

\* every request, acknowledgement and notification under way arrives, and the
\* continuation of an answered read runs
FairStatsSpec ==
    /\ StatsSpec
    /\ WF_vars(StatsMount)
    /\ \A s \in 1..MaxReads : WF_vars(SubscribeAck(s)) /\ WF_vars(Notify(s))
    /\ \A k \in 1..MaxReads : WF_vars(ReadServe(k)) /\ WF_vars(ReadResolve(k))

-----------------------------------------------------------------------------
(* The stats view while rows are also updated and deleted by other clients of the table *)

\* table without its row k
Without(table, k) == SubSeq(table, 1, k - 1) \o SubSeq(table, k + 1, Len(table))

\* another client of the table updates or deletes row k while a subscription
\* is joined; the joined subscriptions are notified ({ event: '*' }). The
\* behaviours explored change the row inserted last.
ForeignChange(kind, k) ==
    /\ kind \in {"UPDATE", "DELETE"}
    /\ k \in 1..Len(visitor_logs)
    /\ \E s \in 1..Len(channel) : channel[s].state = "joined"
    /\ QueuesOpen
    /\ IF kind = "UPDATE"
       THEN /\ visitor_logs[k].browser /= "Unknown"
            /\ visitor_logs' = [visitor_logs EXCEPT ![k].browser = "Unknown"]
       ELSE visitor_logs' = Without(visitor_logs, k)
    /\ channel' = Publish(channel, kind)
    /\ UNCHANGED <<cards, instance, zone, variant, view, stats, statsAt, loading, reads, now>>
    /\ UNCHANGED recorderVars
    /\ UNCHANGED typewriter

LiveNext ==
    \/ StatsMount
    \/ \E s \in 1..MaxReads : SubscribeAck(s)
    \/ VisitInsert
    \/ \E kind \in Events : ForeignChange(kind, Len(visitor_logs))
    \/ \E s \in 1..MaxReads : Notify(s)
    \/ \E k \in 1..MaxReads : ReadServe(k)
    \/ \E k \in 1..MaxReads : ReadResolve(k)
    \/ StatsUnmount

LiveSpec == StatsInit /\ [][LiveNext]_vars

-----------------------------------------------------------------------------
(* The stats view opened, left and opened again, with and without StrictMode *)

\* the route is entered again: a new StatsPage instance with its useState values
StatsOpenAgain ==
    /\ view = "unmounted"
    /\ Len(reads) + EffectRuns <= MaxReads
    /\ view' = "rendered"
    /\ instance' = instance + 1
    /\ stats' = EmptyStats(variant)
    /\ statsAt' = 0 - 1
    /\ loading' = TRUE
    /\ cards' = RenderCards(loading', stats')
    /\ UNCHANGED <<zone, variant, reads, channel, visitor_logs, now>>
    /\ UNCHANGED recorderVars
    /\ UNCHANGED typewriter

MountInit ==
    /\ zone = "fixed"
    /\ variant = "setDate"
    /\ StatsIdle
    /\ strictMode \in BOOLEAN
    /\ userAgent \in UASamples
    /\ page = "rendered"
    /\ isLoading = FALSE
    /\ seenLoading = FALSE
    /\ inv = <<>>
    /\ classified = [browser |-> "", os |-> ""]
    /\ visitor_logs = <<>>
    /\ now = 0

MountNext ==
    \/ StatsMount
    \/ \E s \in 1..MaxReads : SubscribeAck(s)
    \/ VisitInsert
    \/ \E s \in 1..MaxReads : Notify(s)
    \/ \E k \in 1..MaxReads : ReadServe(k)
    \/ \E k \in 1..MaxReads : ReadResolve(k)
    \/ StatsUnmount
    \/ StatsOpenAgain

MountSpec == MountInit /\ [][MountNext]_vars

-----------------------------------------------------------------------------
(* calculateStats over given tables: one bulk read of the view, nothing written *)

\* timestamps around the limits of today and of the last week
Stamps(z, clock) ==
    LET T == Today(z, clock)
    IN { T - WeekDays * DayHours - 2, T - WeekDays * DayHours - 1, T - WeekDays * DayHours,
         T - WeekDays * DayHours + 1, T - 1, T, clock, clock + 1 }

\* every table of at most MaxRows rows with these timestamps
ShortTables(z, clock) ==
    LET records == { VisitRecord(ua, t) : ua \in VisitorUAs, t \in Stamps(z, clock) }
    IN UNION { [1..n -> records] : n \in 0..MaxRows }

\* a table of n rows of pairwise different timestamps, in no order
LongTable(n) ==
    [k \in 1..n |->
        VisitRecord(CHOOSE ua \in VisitorUAs : (k % 3 = 0) = Includes(ua, "Firefox"),
                    IF k % 2 = 0 THEN 0 - k ELSE k - 4 * RecentCap)]

LongTables == { LongTable(n) : n \in (RecentCap - 1)..(RecentCap + MaxExtra) }

CalcInit ==
    /\ zone \in Zones
    /\ variant \in Variants
    /\ StatsIdle
    /\ RecorderIdle
    /\ now \in 0..MaxTime
    /\ visitor_logs \in ShortTables(zone, now) \cup LongTables

CalcNext ==
    \/ StatsMount
    \/ \E k \in 1..MaxReads : ReadServe(k)
    \/ \E k \in 1..MaxReads : ReadResolve(k)

CalcSpec == CalcInit /\ [][CalcNext]_vars

-----------------------------------------------------------------------------
(* Properties of the Visit Recorder *)

Invocations == 1..Len(inv)

\* no lookup and no append of any invocation has failed
NothingFailed ==
    \A i \in Invocations : inv[i].lookup \in {"pending", "ok"} /\ Failures(inv[i]) = 0

RECURSIVE SumPersisted(_)
SumPersisted(n) == IF n = 0 THEN 0 ELSE inv[n].persisted + SumPersisted(n - 1)

\* C1: for one mounted page instance (no double mount effect) whose lookups and
\* appends all succeed, at most one record is ever appended to visitor_logs: the
\* mount effect starts no second recording after the first one has finished.
C1_OneRecordPerPageLoad ==
    (~strictMode /\ NothingFailed) => Len(visitor_logs) <= 1

\* C2: an invocation that has finished with every append attempt failed made
\* exactly 3 attempts, stored nothing and propagated no exception.
C2_GiveUpAfterThree ==
    \A i \in Invocations :
        (inv[i].pc = "done" /\ inv[i].lookup = "ok" /\ Failures(inv[i]) = inv[i].attempts)
            => /\ inv[i].attempts = 3
               /\ inv[i].persisted = 0
               /\ ~inv[i].rejected

C2_Witness ==
    \E i \in Invocations :
        inv[i].pc = "done" /\ inv[i].lookup = "ok" /\ inv[i].attempts = 3 /\ inv[i].persisted = 0

\* C3 as claimed: an invocation whose first 3 append attempts failed finishes
\* with the record persisted by a 4th attempt.
C3_FourthAttemptPersists ==
    \A i \in Invocations :
        (inv[i].pc = "done" /\ Failures(inv[i]) >= 3)
            => inv[i].attempts = 4 /\ inv[i].persisted = 1

\* C3 as amended: once 3 append attempts of an invocation have failed it makes
\* no 4th attempt and persists nothing; a record is persisted only by one of the
\* first 3 attempts, the one right after the failed ones.
C3_NoFourthAttempt ==
    \A i \in Invocations :
        /\ inv[i].attempts <= 3
        /\ Failures(inv[i]) >= 3
              => inv[i].attempts = 3 /\ inv[i].persisted = 0 /\ inv[i].pc \in {"delay", "done"}
        /\ inv[i].persisted = 1 => inv[i].attempts = Failures(inv[i]) + 1

C3_Witness ==
    \E i \in Invocations : Failures(inv[i]) = 3 /\ inv[i].pc = "done" /\ ~isLoading

\* C4: an invocation makes between 0 and 3 append attempts and persists at most
\* one record; the attempt that stored the record is its last (the invocation
\* is finished and its attempt count never changes again), and visitor_logs
\* holds exactly the records the invocations persisted.
C4_StopAtFirstSuccess ==
    /\ [](\A i \in Invocations :
            /\ inv[i].attempts \in 0..3
            /\ inv[i].persisted \in {0, 1}
            /\ inv[i].persisted = 1 => inv[i].pc = "done")
    /\ [](Len(visitor_logs) = SumPersisted(Len(inv)))
    /\ [][\A i \in Invocations :
            inv[i].persisted = 1
                => inv'[i].attempts = inv[i].attempts /\ inv'[i].persisted = 1]_vars

C4_Witness ==
    \E i \in Invocations :
        inv[i].persisted = 1 /\ inv[i].attempts = 2 /\ Len(visitor_logs) = 1

\* C5: at no time are two invocations of logVisitorInfo both past the isLoading
\* guard and not yet finished.
C5_NoOverlap ==
    Cardinality({i \in Invocations : inv[i].pc # "done"}) <= 1

\* C6: an invocation whose address lookup failed (abort, network error, non-OK
\* response, unreadable body) is finished, made no append attempt, built and
\* stored no record and propagated no exception; when every lookup failed,
\* visitor_logs is empty.
C6_LookupFailsSoft ==
    /\ \A i \in Invocations :
          inv[i].lookup \notin {"pending", "ok"}
              => /\ inv[i].pc = "done"
                 /\ inv[i].attempts = 0
                 /\ inv[i].persisted = 0
                 /\ inv[i].visitorLog = NoLog
                 /\ ~inv[i].rejected
    /\ (\A i \in Invocations : inv[i].lookup # "ok") => visitor_logs = <<>>

C6_Witness ==
    \E i, j \in Invocations :
        inv[i].lookup = "AbortError" /\ inv[j].lookup = "notOk" /\ inv[j].pc = "done"

\* C7: while the lookup of an invocation is pending it has made no append
\* attempt, and every invocation that has made one has a successful lookup
\* behind it, whose address is in the record.
C7_LookupBeforeAppend ==
    \A i \in Invocations :
        /\ inv[i].pc \in {"fetch", "json"} => inv[i].attempts = 0 /\ inv[i].lookup = "pending"
        /\ inv[i].attempts > 0 => inv[i].lookup = "ok" /\ inv[i].visitorLog.ip \in IPs

C7_Witness ==
    \E i \in Invocations :
        inv[i].pc = "insert" /\ inv[i].attempts = 1 /\ inv[i].visitorLog.ip \in IPs

\* C8: every invocation that passed the guard eventually finishes (a started
\* invocation stays started and a finished one stays finished, and a run starts
\* at most MaxInvocations of them, so this is: from some point on all of them
\* are finished), no invocation ever propagates an exception, and the step that
\* finishes an invocation leaves isLoading false.
C8_AlwaysSettles ==
    /\ <>[](\A i \in Invocations : inv[i].pc = "done")
    /\ [][\A i \in Invocations :
            /\ i \in 1..Len(inv')
            /\ inv[i].pc = "done" => inv'[i].pc = "done"]_vars
    /\ [](\A i \in Invocations : ~inv[i].rejected)
    /\ [][\A i \in Invocations :
            (inv[i].pc # "done" /\ inv'[i].pc = "done") => isLoading' = FALSE]_vars

C8_Witness ==
    \E i, j \in Invocations :
        /\ inv[i].pc = "done" /\ inv[i].lookup = "TypeError"
        /\ inv[j].pc = "done" /\ inv[j].lookup = "ok" /\ inv[j].retries = 0
        /\ ~isLoading

-----------------------------------------------------------------------------
(* Properties of the classification *)

BrowserOrder ==
    << [sub |-> "Firefox", name |-> "Firefox"], [sub |-> "Chrome", name |-> "Chrome"],
       [sub |-> "Safari", name |-> "Safari"], [sub |-> "Edge", name |-> "Edge"],
       [sub |-> "Opera", name |-> "Opera"] >>

OSOrder ==
    << [sub |-> "Windows", name |-> "Windows"], [sub |-> "Mac", name |-> "macOS"],
       [sub |-> "Linux", name |-> "Linux"], [sub |-> "Android", name |-> "Android"],
       [sub |-> "iOS", name |-> "iOS"] >>

\* the name of the first entry of order whose substring occurs in ua
FirstMatch(order, ua) ==
    LET hits == {k \in 1..Len(order) : Includes(ua, order[k].sub)}
    IN IF hits = {} THEN "Unknown"
       ELSE order[CHOOSE k \in hits : \A m \in hits : k <= m].name

\* C9: for every user-agent string that contains "Firefox", detectBrowser
\* returns "Firefox", whatever other browser names it contains.
C9_FirefoxWins ==
    (Includes(userAgent, "Firefox") /\ classified.browser # "")
        => classified.browser = "Firefox"

C9_Witness ==
    /\ classified.browser = "Firefox"
    /\ Includes(userAgent, "Chrome")
    /\ Includes(userAgent, "Safari")

\* C10: detectBrowser returns the first of Firefox, Chrome, Safari, Edge, Opera
\* whose name occurs in the user agent, detectOS the first of Windows, macOS
\* ("Mac"), Linux, Android, iOS whose substring occurs, and each "Unknown"
\* when none occurs.
C10_FirstMatchWins ==
    /\ classified.browser # "" => classified.browser = FirstMatch(BrowserOrder, userAgent)
    /\ classified.os # "" => classified.os = FirstMatch(OSOrder, userAgent)

C10_Witness ==
    /\ classified.browser = "Edge" /\ Includes(userAgent, "Opera")
    /\ classified.os = "Linux" /\ Includes(userAgent, "Android")

-----------------------------------------------------------------------------
(* Properties of the record vocabulary and of the Stats Aggregator *)

OSVocabulary == { "Windows", "macOS", "Linux", "Android", "iOS", "Unknown" }

BrowserVocabulary == { "Firefox", "Chrome", "Safari", "Edge", "Opera", "Unknown" }

InVocabulary(log) == log.os \in OSVocabulary /\ log.browser \in BrowserVocabulary

\* C11: every record submitted to visitor_logs, stored or not, carries an os
\* out of Windows, macOS, Linux, Android, iOS, Unknown and a browser out of
\* Firefox, Chrome, Safari, Edge, Opera, Unknown, whatever the user agent is;
\* once the lookup has answered, the record is built and submitted
C11_RecordInVocabulary ==
    /\ \A k \in 1..Len(visitor_logs) : InVocabulary(visitor_logs[k])
    /\ \A i \in Invocations :
          /\ inv[i].pc = "insert" => InVocabulary(inv[i].visitorLog)
          /\ inv[i].lookup = "ok" =>
                /\ inv[i].attempts >= 1
                /\ InVocabulary(inv[i].visitorLog)

\* a record of a user agent without any marker is stored as Unknown/Unknown,
\* and one of the Edge marker alone as Edge/Unknown
C11_Witness ==
    /\ Len(visitor_logs) >= 1
    /\ \/ userAgent = "" /\ visitor_logs[1].os = "Unknown" /\ visitor_logs[1].browser = "Unknown"
       \/ visitor_logs[1].os = "Unknown" /\ visitor_logs[1].browser = "Edge"

\* C12: no step updates or deletes a record: every step leaves visitor_logs as
\* it was or appends exactly one record to it, and the steps of the aggregator
\* (mount, read, setStats, setLoading, unsubscribe) leave it as it was
C12_AppendOnly ==
    [][ /\ \/ visitor_logs' = visitor_logs
           \/ /\ Len(visitor_logs') = Len(visitor_logs) + 1
              /\ SubSeq(visitor_logs', 1, Len(visitor_logs)) = visitor_logs
        /\ (reads' /= reads \/ stats' /= stats \/ loading' /= loading \/ view' /= view)
              => visitor_logs' = visitor_logs ]_vars

\* the view has aggregated a first record and a second one has been appended since
C12_Witness ==
    /\ Len(visitor_logs) = 2
    /\ stats.totalVisits = 1
    /\ visitor_logs[1].timestamp < visitor_logs[2].timestamp

\* the view shows the aggregate of a bulk read that succeeded
Aggregated == \E k \in 1..Len(reads) : reads[k].st = "done" /\ reads[k].outcome = "data"

\* the rows of the table whose property name is key
Having(name, key) == { i \in 1..Len(visitor_logs) : visitor_logs[i][name] = key }

RECURSIVE SumOver(_, _)
SumOver(map, keys) ==
    IF keys = {} THEN 0
    ELSE LET k == CHOOSE k \in keys : TRUE
         IN map[k] + SumOver(map, keys \ {k})

\* the grouping has one key for each value of the property in the table, with
\* the number of rows of that value, and its counts add up to total
GroupingOf(map, name, total) ==
    /\ DOMAIN map = { visitor_logs[i][name] : i \in 1..Len(visitor_logs) }
    /\ \A key \in DOMAIN map : map[key] = Cardinality(Having(name, key))
    /\ SumOver(map, DOMAIN map) = total

\* C13: the aggregate of a table has totalVisits = number of rows, browsers[k]
\* and operatingSystems[k] = number of rows of browser / os k, each grouping
\* adding up to totalVisits; for the one record {Linux, Chrome} it is
\* browsers[Chrome] = 1, operatingSystems[Linux] = 1, totalVisits = 1
C13_CountsPartitionTotal ==
    Aggregated =>
        /\ stats.totalVisits = Len(visitor_logs)
        /\ GroupingOf(stats.browsers, "browser", stats.totalVisits)
        /\ GroupingOf(stats.operatingSystems, "os", stats.totalVisits)
        /\ (Len(visitor_logs) = 1 /\ visitor_logs[1].os = "Linux" /\ visitor_logs[1].browser = "Chrome")
              => /\ stats.browsers = ("Chrome" :> 1)
                 /\ stats.operatingSystems = ("Linux" :> 1)
                 /\ stats.totalVisits = 1

\* two rows of one browser were counted, and the single {Linux, Chrome} row is
\* covered by TLC reaching this with one row less
C13_Witness ==
    /\ Aggregated
    /\ Len(visitor_logs) = 2
    /\ visitor_logs[1].browser = "Chrome" /\ visitor_logs[2].browser = "Chrome"
    /\ visitor_logs[1].os = "Linux"
    /\ stats.browsers["Chrome"] = 2

\* C14: the aggregate of the empty table is all zeros and empty groupings, and
\* getPercentChange(current, 0) is the number 0: the cards show 0% for it
C14_EmptyLogIsZero ==
    /\ \A current \in 0..MaxRows : getPercentChange(current, 0) = Number("0")
    /\ (~loading /\ stats.totalVisits = 0) =>
            cards.today = Number("0") /\ cards.week = Number("0")
    /\ (Aggregated /\ visitor_logs = <<>>) =>
            /\ stats.totalVisits = 0 /\ stats.todayVisits = 0 /\ stats.lastWeekVisits = 0
            /\ stats.browsers = EmptyMap /\ stats.operatingSystems = EmptyMap
            /\ stats.recentVisits = <<>>
            /\ \A name \in DOMAIN stats \ {"totalVisits", "todayVisits", "lastWeekVisits", "recentVisits"} :
                  DOMAIN stats[name] = {}

C14_Witness ==
    /\ Aggregated
    /\ visitor_logs = <<>>
    /\ stats.totalVisits = 0
    /\ cards.today.text = "0"

\* the last local midnight at or before instant t
LastMidnight(t) ==
    LET starts == { DayStart(zone, d) : d \in Days }
    IN CHOOSE m \in starts : m <= t /\ \A other \in starts : other <= t => other <= m

\* the rows of the table stamped at or after instant bound
Since(bound) == { i \in 1..Len(visitor_logs) : visitor_logs[i].timestamp >= bound }

\* C15: todayVisits is the number of rows whose timestamp is at or after the
\* local midnight of the instant of the computation, the midnight itself
\* included; rows all before that midnight give todayVisits = 0
C15_TodayFromLocalMidnight ==
    Aggregated =>
        /\ stats.todayVisits = Cardinality(Since(LastMidnight(statsAt)))
        /\ (\A i \in 1..Len(visitor_logs) : visitor_logs[i].timestamp < LastMidnight(statsAt))
              => stats.todayVisits = 0

\* one row stamped exactly at the midnight and one an hour before it
C15_Witness ==
    /\ Aggregated
    /\ Len(visitor_logs) = 2
    /\ visitor_logs[1].timestamp = LastMidnight(statsAt)
    /\ visitor_logs[2].timestamp = LastMidnight(statsAt) - 1
    /\ stats.todayVisits = 1

\* the local midnight that has exactly WeekDays local midnights after it up to
\* instant t
MidnightSevenDaysBefore(t) ==
    LET upTo == { d \in Days : DayStart(zone, d) <= t }
        day == CHOOSE d \in upTo : Cardinality({ other \in upTo : other > d }) = WeekDays
    IN DayStart(zone, day)

\* C16 as stated: lastWeekVisits is the number of rows whose timestamp is at or
\* after today's local midnight minus 7 x 24 hours, for every table and instant
C16_WeekFromMidnightMinus168h ==
    Aggregated =>
        stats.lastWeekVisits = Cardinality(Since(LastMidnight(statsAt) - WeekDays * DayHours))

\* C16, amended: lastWeekVisits of page.tsx counts from the local midnight seven
\* calendar days before today, which is today's midnight minus 7 x 24 hours
\* when no daylight-saving change lies in between; the earlier version
\* (part_002) counts from today's midnight minus 7 x 24 hours in every zone
C16_WeekFromSevenDaysAgo ==
    Aggregated =>
        /\ variant = "setDate" =>
              stats.lastWeekVisits = Cardinality(Since(MidnightSevenDaysBefore(statsAt)))
        /\ (variant = "millis" \/ zone = "fixed") =>
              stats.lastWeekVisits = Cardinality(Since(LastMidnight(statsAt) - WeekDays * DayHours))

\* a spring-forward change in the last week: the row stamped 7 x 24 hours
\* before today's midnight lies before the midnight of seven days ago
C16_Witness ==
    /\ Aggregated
    /\ variant = "setDate"
    /\ zone = "springForward"
    /\ Len(visitor_logs) = 1
    /\ visitor_logs[1].timestamp = LastMidnight(statsAt) - WeekDays * DayHours
    /\ stats.lastWeekVisits = 0

\* C17: for a table of one row stamped at the instant of the computation,
\* todayVisits = 1 and lastWeekVisits >= 1
C17_NowCountsTodayAndWeek ==
    (Aggregated /\ Len(visitor_logs) = 1 /\ visitor_logs[1].timestamp = statsAt) =>
        /\ stats.todayVisits = 1
        /\ stats.lastWeekVisits >= 1

C17_Witness ==
    /\ Aggregated
    /\ Len(visitor_logs) = 1
    /\ visitor_logs[1].timestamp = statsAt
    /\ stats.todayVisits = 1
    /\ stats.lastWeekVisits = 1

Range(seq) == { seq[k] : k \in 1..Len(seq) }

Timestamps(seq) == [k \in 1..Len(seq) |-> seq[k].timestamp]

\* the step sets the aggregate of a bulk read that returned the very rows the
\* aggregate on display was made of: a second read with no write in between
Reread ==
    /\ Aggregated
    /\ Len(visitor_logs) < RecentCap
    /\ \E k \in 1..Len(reads) :
          /\ reads[k].st = "served" /\ reads[k].outcome = "data"
          /\ reads'[k].st = "done"
          /\ Range(reads[k].data) = Range(stats.recentVisits)

\* C18 as stated: a second read-and-aggregate with no write in between gives
\* the identical aggregate
C18_RereadIdentical == [][Reread => stats' = stats]_vars

\* C18, amended: a second read-and-aggregate with no write in between gives the
\* same totalVisits and groupings and the same recentVisits up to the order of
\* records of equal timestamp; todayVisits and lastWeekVisits are the same when
\* both computations fall on the same local day; with that and no two records
\* of equal timestamp the aggregate is identical
C18_RereadSameUpToClockAndTies ==
    [][Reread =>
        /\ stats'.totalVisits = stats.totalVisits
        /\ \A name \in DOMAIN stats \ {"totalVisits", "todayVisits", "lastWeekVisits", "recentVisits"} :
              stats'[name] = stats[name]
        /\ Range(stats'.recentVisits) = Range(stats.recentVisits)
        /\ Timestamps(stats'.recentVisits) = Timestamps(stats.recentVisits)
        /\ LastMidnight(now) = LastMidnight(statsAt) =>
              /\ stats'.todayVisits = stats.todayVisits
              /\ stats'.lastWeekVisits = stats.lastWeekVisits
              /\ (\A i, j \in 1..Len(visitor_logs) :
                     visitor_logs[i].timestamp = visitor_logs[j].timestamp => i = j)
                   => stats' = stats
    ]_vars

\* two reads have returned the one row of the table, and the second aggregate
\* was made after the midnight the first was made before
C18_Witness ==
    /\ Len(reads) = 2
    /\ \A k \in 1..2 : reads[k].st = "done" /\ reads[k].outcome = "data" /\ reads[k].seen = 1
    /\ Len(visitor_logs) = 1
    /\ visitor_logs[1].timestamp < LastMidnight(statsAt)
    /\ stats.totalVisits = 1
    /\ stats.todayVisits = 0

\* C19: recentVisits has min(50, totalVisits) records, in descending order of
\* timestamp, each a different row of the table, and no row left out is more
\* recent than one that is in
C19_RecentAreLatestFifty ==
    Aggregated =>
        LET recent == stats.recentVisits
            ids == { recent[k].id : k \in 1..Len(recent) }
        IN /\ Len(recent) = (IF stats.totalVisits < RecentCap THEN stats.totalVisits ELSE RecentCap)
           /\ \A k \in 1..(Len(recent) - 1) : recent[k].timestamp >= recent[k + 1].timestamp
           /\ ids \subseteq 1..Len(visitor_logs)
           /\ Cardinality(ids) = Len(recent)
           /\ \A k \in 1..Len(recent) : recent[k] = visitor_logs[recent[k].id] @@ [id |-> recent[k].id]
           /\ \A i \in (1..Len(visitor_logs)) \ ids :
                 \A k \in 1..Len(recent) : visitor_logs[i].timestamp <= recent[k].timestamp

\* a table of more rows than the cap, stored in another order than by timestamp
C19_Witness ==
    /\ Aggregated
    /\ Len(visitor_logs) > RecentCap
    /\ visitor_logs[1].timestamp < visitor_logs[2].timestamp
    /\ Len(stats.recentVisits) = RecentCap
    /\ stats.totalVisits = Len(visitor_logs)

\* the step is the continuation of a bulk read that failed
FailedRead ==
    \E k \in 1..Len(reads) :
        /\ reads[k].st = "served" /\ reads[k].outcome \in {"error", "thrown"}
        /\ reads'[k].st = "done"

\* C20: a bulk read that fails, by an error result or by throwing, leaves the
\* aggregate as it was and issues no read; a read is issued only by the mount
\* of the view and by the delivery of a change notification
C20_FailedReadKeepsAggregate ==
    [][ /\ FailedRead => (stats' = stats /\ Len(reads') = Len(reads))
        /\ Len(reads') > Len(reads) =>
              \/ view = "rendered" /\ view' = "mounted"
              \/ \E s \in 1..Len(channel) :
                    /\ channel[s].pending /= <<>>
                    /\ channel'[s].pending = Tail(channel[s].pending) ]_vars

\* the aggregate of one row is still shown after a later read has failed
\* while the table has two rows
C20_Witness ==
    /\ Len(reads) = 2
    /\ reads[1].st = "done" /\ reads[1].outcome = "data" /\ reads[1].seen = 1
    /\ reads[2].st = "done" /\ reads[2].outcome \in {"error", "thrown"}
    /\ Len(visitor_logs) = 2
    /\ stats.totalVisits = 1
    /\ ~loading

\* subscription s stays joined over the step
StaysJoined(s) == channel[s].state = "joined" /\ channel'[s].state = "joined"

\* C21: while the view is mounted every change of the table, be it an insert,
\* an update or a delete, is notified to its subscription, and every
\* notification delivered starts exactly one bulk read, whatever its kind; the
\* read returns the whole table as it is then, and the aggregate set from it
\* is made of all the rows returned and of nothing else
C21_NotificationRereadsAll ==
    [][ /\ \A s \in 1..Len(channel) :
              StaysJoined(s) =>
                 /\ visitor_logs' /= visitor_logs =>
                       \E kind \in Events : channel'[s].pending = Append(channel[s].pending, kind)
                 /\ Len(channel'[s].pending) < Len(channel[s].pending) =>
                       /\ channel'[s].pending = Tail(channel[s].pending)
                       /\ Len(reads') = Len(reads) + 1
                       /\ SubSeq(reads', 1, Len(reads)) = reads
                       /\ reads'[Len(reads')].st = "sent"
                       /\ reads'[Len(reads')].cause = Head(channel[s].pending)
        /\ \A k \in 1..Len(reads) :
              /\ (reads[k].st = "sent" /\ reads'[k].outcome = "data") =>
                    Range(reads'[k].data) = Range(Rows(visitor_logs))
              /\ (reads[k].st = "served" /\ reads[k].outcome = "data"
                     /\ reads'[k].st = "done" /\ reads[k].inst = instance) =>
                    /\ stats'.totalVisits = Len(reads[k].data)
                    /\ Range(stats'.recentVisits) = Range(reads[k].data)
                    /\ SumOver(stats'.browsers, DOMAIN stats'.browsers) = Len(reads[k].data)
    ]_vars

\* the notification of a delete has led to a read, and the aggregate of the
\* rows left is on display
C21_Witness ==
    /\ view = "mounted"
    /\ \E k \in 1..Len(reads) :
          /\ reads[k].cause = "DELETE" /\ reads[k].st = "done" /\ reads[k].outcome = "data"
          /\ reads[k].seen = 1
    /\ Len(visitor_logs) = 1
    /\ stats.totalVisits = 1

\* the subscriptions that are not closed
Active == { s \in 1..Len(channel) : channel[s].state \in {"joining", "joined"} }

\* C22: whatever the mounts and unmounts so far, one subscription is active
\* while the view is mounted and none otherwise; a mount leaves the one it made
\* last as the active one, an unmount closes that one; a closed subscription
\* has nothing pending, and no read is added while the view is unmounted
C22_OneSubscriptionPerMountedView ==
    /\ [](Cardinality(Active) = (IF view = "mounted" THEN 1 ELSE 0))
    /\ [](\A s \in 1..Len(channel) : s \notin Active => channel[s].pending = <<>>)
    /\ [][ /\ (view /= "mounted" /\ view' = "mounted") =>
                  (Len(channel') > Len(channel) /\ Active' = {Len(channel')})
           /\ (view = "mounted" /\ view' /= "mounted") =>
                  (Active = {Len(channel)} /\ Active' = {} /\ Len(channel') = Len(channel))
           /\ view = "unmounted" => Len(reads') = Len(reads) ]_vars

\* the second instance of the view is mounted: its subscription is joined, the
\* one of the first instance is closed
C22_Witness ==
    /\ instance = 2
    /\ view = "mounted"
    /\ Len(channel) = 2
    /\ channel[1].state = "closed"
    /\ channel[2].state = "joined"
    /\ Len(visitor_logs) >= 1

\* the aggregate on display is the one of the table as it is now
ShowsWholeTable ==
    /\ stats.totalVisits = Len(visitor_logs)
    /\ Range(stats.recentVisits) = Range(Rows(visitor_logs))

\* C23: if the view stays mounted and no bulk read fails, then from some
\* moment on (the appends have stopped by then) the aggregate on display is the
\* one of the whole final table, whenever its rows were appended
C23_EventuallyShowsAll ==
    ([](view /= "unmounted") /\ [](\A k \in 1..Len(reads) : reads[k].outcome \notin {"error", "thrown"}))
        => <>[]ShowsWholeTable

\* the step sets the aggregate of read k
Applies(k) ==
    /\ reads[k].st = "served" /\ reads[k].outcome = "data" /\ reads[k].inst = instance
    /\ reads'[k].st = "done"

\* the aggregate of read j has been set
Applied(j) == reads[j].st = "done" /\ reads[j].outcome = "data" /\ reads[j].inst = instance

\* C24: the answer of a read issued earlier does not replace the aggregate of
\* a read issued later by one of an older state of the table: once a later
\* read has set the aggregate, the table it shows does not get shorter
C24_NoStaleOverwrite ==
    [][ \A k \in 1..Len(reads) :
          (Applies(k) /\ \E j \in (k + 1)..Len(reads) : Applied(j))
             => stats'.totalVisits >= stats.totalVisits ]_vars

-----------------------------------------------------------------------------
(* Further properties of the Visit Recorder *)

\* C25: the record of an invocation is fixed when the lookup has answered:
\* from then on no step changes it, whatever the clock shows and however many
\* attempts fail, the lookup is not run again, and every row an attempt stores
\* is that record
C25_SameRecordEveryAttempt ==
    [][ /\ \A i \in 1..Len(inv) :
              inv[i].lookup = "ok" =>
                 /\ inv'[i].visitorLog = inv[i].visitorLog
                 /\ inv'[i].lookup = "ok"
                 /\ inv'[i].pc \notin {"fetch", "json"}
        /\ Len(visitor_logs') > Len(visitor_logs) =>
              \E i \in 1..Len(inv) :
                 /\ inv[i].pc = "insert" /\ inv'[i].persisted = inv[i].persisted + 1
                 /\ visitor_logs'[Len(visitor_logs')] = inv[i].visitorLog ]_vars

\* a record stored by a second or third attempt, after the clock has moved
\* on, still has the timestamp of its creation
C25_Witness ==
    \E i \in 1..Len(inv) :
        /\ inv[i].attempts >= 2
        /\ inv[i].persisted = 1
        /\ inv[i].visitorLog.timestamp < now
        /\ \E k \in 1..Len(visitor_logs) : visitor_logs[k] = inv[i].visitorLog

\* the append loop of invocation v is over: a row stored, or three attempts failed
LoopRanOut(v) ==
    /\ v.pc = "done"
    /\ \/ v.persisted = 1
       \/ v.persisted = 0 /\ v.attempts = 3

\* C26: an invocation whose lookup has answered ends with a stored row or
\* with three failed attempts, and not before, also when the component is
\* unmounted on the way: the unmount leaves every invocation as it is, and from
\* some moment on every such invocation has run its loop out
C26_LoopOutlivesUnmount ==
    /\ <>[](\A i \in Invocations : inv[i].lookup = "ok" => LoopRanOut(inv[i]))
    /\ [](\A i \in Invocations : (inv[i].lookup = "ok" /\ inv[i].pc = "done") => LoopRanOut(inv[i]))
    /\ [][(page = "mounted" /\ page' = "unmounted") => inv' = inv]_vars
    /\ [][\A i \in Invocations :
            (page = "unmounted" /\ inv[i].pc = "delay") => inv'[i].pc \in {"delay", "insert", "done"}]_vars

\* the component is gone while an invocation waits for its second retry
C26_Witness ==
    /\ page = "unmounted"
    /\ \E i \in Invocations :
          inv[i].pc = "delay" /\ inv[i].attempts = 2 /\ inv[i].persisted = 0

(* Further properties of the Stats View *)

\* some read of the instance on screen has completed (its continuation has run)
SomeReadCompleted ==
    \E k \in 1..Len(reads) : reads[k].inst = instance /\ reads[k].st = "done"

\* C27: loading is true exactly as long as no bulk read of the view has
\* completed, whether the first to complete succeeds or fails; while it is
\* true the aggregate is the empty one of the initial state; and once false no
\* later read sets it back to true
C27_LoadingUntilFirstRead ==
    /\ [](loading <=> ~SomeReadCompleted)
    /\ [](loading => stats = EmptyStats(variant))
    /\ [][~loading => ~loading']_vars

\* the first read to complete failed, the flag is down, and a later read is
\* still on its way
C27_Witness ==
    /\ ~loading
    /\ \E k \in 1..Len(reads) :
          /\ reads[k].st = "done" /\ reads[k].outcome \in {"error", "thrown"}
          /\ \A j \in 1..Len(reads) : j /= k => reads[j].st /= "done"
    /\ \E j \in 1..Len(reads) : reads[j].st \in {"sent", "served"}

\* C28: in every aggregate, whatever the table and the instant of the
\* computation, 0 <= todayVisits <= lastWeekVisits <= totalVisits; a row stamped
\* after the instant of the computation is counted in both windows
C28_TodayWithinWeekWithinTotal ==
    /\ 0 <= stats.todayVisits
    /\ stats.todayVisits <= stats.lastWeekVisits
    /\ stats.lastWeekVisits <= stats.totalVisits
    /\ Aggregated =>
          /\ stats.totalVisits = Len(visitor_logs)
          /\ \A k \in 1..Len(visitor_logs) :
                visitor_logs[k].timestamp > statsAt =>
                   stats.todayVisits >= 1 /\ stats.lastWeekVisits >= 1

\* two rows, one older than the week and one stamped after the instant of the
\* computation: 1 today, 1 in the week, 2 in all
C28_Witness ==
    /\ Aggregated
    /\ \E k \in 1..Len(visitor_logs) : visitor_logs[k].timestamp > statsAt
    /\ stats.todayVisits = 1
    /\ stats.lastWeekVisits = 1
    /\ stats.totalVisits = 2

-----------------------------------------------------------------------------
(* Further properties of the classification *)

\* the string holds none of the given markers
HoldsNone(ua, subs) == \A sub \in subs : ~Includes(ua, sub)

\* "Android" and "Edge" are returned only when no marker tested earlier occurs
OnlyAfterEarlierMarkers ==
    /\ classified.os = "Android" =>
          Includes(userAgent, "Android") /\ HoldsNone(userAgent, {"Windows", "Mac", "Linux"})
    /\ classified.browser = "Edge" =>
          Includes(userAgent, "Edge") /\ HoldsNone(userAgent, {"Firefox", "Chrome", "Safari"})

\* C29 as stated: detectOS returns "Android" only for strings with "Android"
\* and none of "Windows", "Mac", "Linux", detectBrowser returns "Edge" only for
\* strings with "Edge" and none of "Firefox", "Chrome", "Safari"; every string
\* with "Linux" and "Android" is classified Linux and every string with
\* "Chrome" and "Edge" is classified Chrome
C29_LinuxAndChromeWin ==
    /\ OnlyAfterEarlierMarkers
    /\ (classified.os # "" /\ Includes(userAgent, "Linux") /\ Includes(userAgent, "Android"))
          => classified.os = "Linux"
    /\ (classified.browser # "" /\ Includes(userAgent, "Chrome") /\ Includes(userAgent, "Edge"))
          => classified.browser = "Chrome"

\* C29, amended: the same, but a string with "Linux" and "Android" is
\* classified Linux when it holds neither "Windows" nor "Mac" (and is never
\* classified Android), and a string with "Chrome" and "Edge" is classified
\* Chrome when it does not hold "Firefox" (and is never classified Edge)
C29_AndroidAndEdgeComeLast ==
    /\ OnlyAfterEarlierMarkers
    /\ (classified.os # "" /\ Includes(userAgent, "Linux") /\ Includes(userAgent, "Android"))
          => /\ classified.os # "Android"
             /\ HoldsNone(userAgent, {"Windows", "Mac"}) => classified.os = "Linux"
    /\ (classified.browser # "" /\ Includes(userAgent, "Chrome") /\ Includes(userAgent, "Edge"))
          => /\ classified.browser # "Edge"
             /\ HoldsNone(userAgent, {"Firefox"}) => classified.browser = "Chrome"

\* an Android Chrome string with an Edge marker: Linux and Chrome
C29_Witness ==
    /\ Includes(userAgent, "Linux") /\ Includes(userAgent, "Android")
    /\ Includes(userAgent, "Chrome") /\ Includes(userAgent, "Edge")
    /\ classified.os = "Linux"
    /\ classified.browser = "Chrome"

-----------------------------------------------------------------------------
(* Typewriter headline of the home page *)

fullText == "Driving Innovation and Security in IT Operations"

\* the two versions of the effect: setInterval (current), setTimeout per character (earlier)
Versions == { "interval", "timeout" }

\* the effect body: the interval version starts an interval with currentIndex = 0;
\* the timeout version starts a timeout that holds text.length of this render,
\* and none (and returns no cleanup) once the text is complete.
\* A timer is [active, index]; index is currentIndex, or the captured text.length
RunEffect(tw) ==
    IF tw.version = "interval"
    THEN [tw EXCEPT !.timers = Append(@, [active |-> TRUE, index |-> 0]),
                    !.cleanup = Len(tw.timers) + 1]
    ELSE IF Len(tw.text) < Len(fullText)
         THEN [tw EXCEPT !.timers = Append(@, [active |-> TRUE, index |-> Len(tw.text)]),
                         !.cleanup = Len(tw.timers) + 1]
         ELSE [tw EXCEPT !.cleanup = 0]

\* a cleanup that leaves the timer running
CleanupKeepsTimer(tw) == [tw EXCEPT !.cleanup = 0]

\* return () => clearInterval(typingInterval) / clearTimeout(timeout): the
\* cleanup of the last run of the effect, if that run returned one
Cleanup(tw) ==
    IF tw.cleanup = 0
    THEN tw
    ELSE [tw EXCEPT !.timers[tw.cleanup].active = FALSE, !.cleanup = 0]

\* setText(value) of a component that is on screen or not
setText(tw, value, onScreen) == IF onScreen THEN [tw EXCEPT !.text = value] ELSE tw

\* the interval callback of timer t
IntervalCallback(tw, t, onScreen) ==
    LET currentIndex == tw.timers[t].index
    IN IF currentIndex <= Len(fullText)
       THEN [setText(tw, Slice(fullText, 0, currentIndex), onScreen)
                EXCEPT !.timers[t].index = currentIndex + 1]
       ELSE [tw EXCEPT !.timers[t].active = FALSE]

\* the timeout callback of timer t, which fires once; a changed text renders
\* again and, text being a dependency, the effect is cleaned up and run again
TimeoutCallback(tw, t, onScreen) ==
    LET fired == [tw EXCEPT !.timers[t].active = FALSE]
        set == setText(fired, Slice(fullText, 0, tw.timers[t].index + 1), onScreen)
    IN IF set.text # tw.text THEN RunEffect(Cleanup(set)) ELSE set

ActiveTimers == { t \in 1..Len(typewriter.timers) : typewriter.timers[t].active }

\* the mount effect; under StrictMode effect, cleanup, effect
TypeMount ==
    /\ page = "rendered"
    /\ page' = "mounted"
    /\ typewriter' = IF strictMode
                     THEN RunEffect(Cleanup(RunEffect(typewriter)))
                     ELSE RunEffect(typewriter)
    /\ UNCHANGED <<strictMode, userAgent, isLoading, seenLoading, inv, visitor_logs, now, classified>>
    /\ UNCHANGED statsVars

\* typingSpeed milliseconds have passed for timer t
TypeTick(t) ==
    /\ t \in ActiveTimers
    /\ typewriter' = IF typewriter.version = "interval"
                     THEN IntervalCallback(typewriter, t, page = "mounted")
                     ELSE TimeoutCallback(typewriter, t, page = "mounted")
    /\ UNCHANGED <<strictMode, userAgent, page, isLoading, seenLoading, inv, visitor_logs, now, classified>>
    /\ UNCHANGED statsVars

\* the component leaves the screen: the cleanup of the effect runs
TypeUnmount ==
    /\ page = "mounted"
    /\ page' = "unmounted"
    /\ typewriter' = Cleanup(typewriter)
    /\ UNCHANGED <<strictMode, userAgent, isLoading, seenLoading, inv, visitor_logs, now, classified>>
    /\ UNCHANGED statsVars

\* the home page rendered once, in either build and either version of the effect
TypeInit ==
    /\ zone = "fixed"
    /\ variant = "setDate"
    /\ StatsViewIdle
    /\ typewriter \in { [TypewriterIdle EXCEPT !.version = v] : v \in Versions }
    /\ strictMode \in BOOLEAN
    /\ userAgent \in UASamples
    /\ page = "rendered"
    /\ isLoading = FALSE
    /\ seenLoading = FALSE
    /\ inv = <<>>
    /\ visitor_logs = <<>>
    /\ now = 0
    /\ classified = [browser |-> "", os |-> ""]

TypeNext ==
    \/ TypeMount
    \/ \E t \in 1..Len(typewriter.timers) : TypeTick(t)
    \/ TypeUnmount

TypeSpec == TypeInit /\ [][TypeNext]_vars

\* the mount effect runs after the first render, and a running timer fires
FairTypeSpec ==
    /\ TypeSpec
    /\ WF_vars(TypeMount)
    /\ WF_vars(\E t \in 1..Len(typewriter.timers) : TypeTick(t))

-----------------------------------------------------------------------------
(* Properties of the typewriter headline *)

IsPrefix(text) == Len(text) <= Len(fullText) /\ text = Slice(fullText, 0, Len(text))

\* C30: the headline is always a prefix of the full text; no step makes it
\* shorter (a run does not open the page a second time); unless the page is
\* unmounted it eventually is the full text; once it is the full text no step
\* changes it; no timer is left running after an unmount, and from some
\* moment on no timer is running at all
C30_TypesTheHeadlineOnce ==
    /\ [](IsPrefix(typewriter.text))
    /\ [][Len(typewriter'.text) >= Len(typewriter.text)]_vars
    /\ <>(page = "unmounted" \/ typewriter.text = fullText)
    /\ [][typewriter.text = fullText => typewriter'.text = fullText]_vars
    /\ [](page = "unmounted" => ActiveTimers = {})
    /\ <>[](ActiveTimers = {})

\* under StrictMode the headline is complete, on screen, and its timer cleared
C30_Witness ==
    /\ strictMode
    /\ page = "mounted"
    /\ typewriter.text = fullText
    /\ ActiveTimers = {}

====
